---- MODULE Spec2Model ----
(***************************************************************************)
(* A model of frame_miner: the video cursor (VideoController), the label   *)
(* ledger, undo stack and marker cache (DataManager), the key handlers of  *)
(* the labeling loop and the offline rebuild (LabelingApp).                *)
(*                                                                         *)
(* Strings that the code splits on '_' are modelled by their list of       *)
(* '_'-separated segments: "class_my_car" is <<"class","my","car">>, so    *)
(* "class_" + name is <<"class">> \o name and s.split('_')[-1] is the last *)
(* segment.  A frame image is modelled by the index of the decoded frame.  *)
(* timestamp_ms is modelled by the integer number of hundredths of a       *)
(* millisecond that f"{ms:.2f}" prints.  The wall-clock column of a ledger *)
(* row, the playback speed and the on-screen message are display-only and  *)
(* are left out.                                                           *)
(***************************************************************************)
EXTENDS Integers, Sequences, FiniteSets, TLC

\* ------------------------------------------------------------------ bounds
TotalFrames == 2      \* frames of the video under labeling
MaxRows == 2          \* data rows the ledger may hold
MaxLookback == 2      \* largest extract_num / new_extract_num
MaxInterval == 2      \* largest interval / new_interval
PlanSlack == 2        \* how far outside the video a planner centre is drawn

\* ---------------------------------------------------------------- helpers
Range(s) == {s[i] : i \in 1..Len(s)}
Last(s) == s[Len(s)]
Front(s) == SubSeq(s, 1, Len(s) - 1)
Max(a, b) == IF a >= b THEN a ELSE b
Min(a, b) == IF a <= b THEN a ELSE b

\* a dict: a function whose domain is the set of its keys
EmptyDict == [x \in {} |-> <<>>]
DictPut(m, k, v) == [x \in (DOMAIN m) \cup {k} |-> IF x = k THEN v ELSE m[x]]
DictDel(m, k) == [x \in (DOMAIN m) \ {k} |-> m[x]]

\* ------------------------------------------------------------------ config
NoFrame == -1   \* frame_cache = None

BASE_KEYS == <<122, 120, 99, 118, 98, 110, 109, 111>>
BASE_CHARS == <<"z", "x", "c", "v", "b", "n", "m", "other">>
\* chr(k_code).lower() for the eight key codes
Chr(k) ==
  CASE k = 122 -> "z" [] k = 120 -> "x" [] k = 99 -> "c" [] k = 118 -> "v"
    [] k = 98 -> "b" [] k = 110 -> "n" [] k = 109 -> "m" [] k = 111 -> "o"

\* BASE_KEYS.index(key)
KeyIndex(key) == CHOOSE i \in 1..Len(BASE_KEYS) : BASE_KEYS[i] = key

\* LabelingApp.__init__: the key -> class name map; names beyond the seventh
\* are dropped and an unnamed key keeps its base character
KeyMap(class_names) ==
  LET safe_names == SubSeq(class_names, 1, Min(7, Len(class_names)))
  IN [key \in Range(BASE_KEYS) |->
        LET i == KeyIndex(key)
        IN IF i <= Len(safe_names) THEN safe_names[i] ELSE <<BASE_CHARS[i]>>]

\* the inputs the model draws: class_names lists (none, a plain name, a name
\* holding '_'), the keys the operator presses ('z' and 'o')
ClassNameChoices == { <<>>, << <<"car">> >>, << <<"my", "car">> >> }
PressedKeys == {122, 111}

\* ------------------------------------------------------- VideoController
\* VideoController.__init__
NewVideo == [pos |-> 0, current_frame_idx |-> 0, frame_cache |-> NoFrame,
             opened |-> TRUE]

\* cap.read() succeeds while the stream is open and not at its end
CanRead(v, total) == v.opened /\ v.pos < total

\* VideoController.read: the video after the call (ret is CanRead)
read(v, total) ==
  IF CanRead(v, total)
  THEN [v EXCEPT !.current_frame_idx = (v.pos + 1) - 1,
                 !.frame_cache = v.pos,
                 !.pos = v.pos + 1]
  ELSE v

\* seek without the clamp of its target
seek_NoClamp(v, frame_idx, total) ==
  LET v1 == IF v.opened THEN [v EXCEPT !.pos = frame_idx] ELSE v
  IN read(v1, total)

\* VideoController.seek
seek(v, frame_idx, total) ==
  LET target == Max(0, Min(frame_idx, total - 1))
      v1 == IF v.opened THEN [v EXCEPT !.pos = target] ELSE v
  IN read(v1, total)

\* VideoController.release
release(v) == [v EXCEPT !.opened = FALSE]

\* VideoController.get_ms followed by f"{ms:.2f}": hundredths of a millisecond
get_ms(v, fps) ==
  IF fps > 0 THEN (2 * v.current_frame_idx * 100000 + fps) \div (2 * fps) ELSE 0

\* ------------------------------------------------------------- the planner
\* TaggingTargets without the upper end of the range test
TaggingTargets_NoUpperBound(curr_idx, extract_num, interval, total) ==
  LET cand == [j \in 1..(extract_num + 1) |->
                 curr_idx + ((j - 1 - extract_num) * interval)]
  IN SelectSeq(cand, LAMBDA target : 0 <= target)

\* TaggingTargets over range(-n, 0): the marked frame itself is left out
TaggingTargets_SkipsCentre(curr_idx, extract_num, interval, total) ==
  LET cand == [j \in 1..extract_num |->
                 curr_idx + ((j - 1 - extract_num) * interval)]
  IN SelectSeq(cand, LAMBDA target : 0 <= target /\ target < total)

\* range(-n, 1) applied to centre + i * interval, kept when inside the video:
\* the loop of LabelingApp._handle_tagging
TaggingTargets(curr_idx, extract_num, interval, total) ==
  LET cand == [j \in 1..(extract_num + 1) |->
                 curr_idx + ((j - 1 - extract_num) * interval)]
  IN SelectSeq(cand, LAMBDA target : 0 <= target /\ target < total)

\* the loop (C) of LabelingApp.rebuild_dataset: anchored at center_frame_id - 1
RebuildTargets(center_frame_id, new_extract_num, new_interval, total) ==
  LET cand == [j \in 1..(new_extract_num + 1) |->
                 (center_frame_id - 1) + ((j - 1 - new_extract_num) * new_interval)]
  IN SelectSeq(cand, LAMBDA f_idx : 0 <= f_idx /\ f_idx < total)

\* ------------------------------------------------------------ DataManager
\* one physical line of the ledger file
HeaderLine == [kind |-> "header", frame_id |-> 0, timestamp_ms |-> 0,
               class_label |-> <<"class", "label">>, note |-> "note"]
Row(frame_id, ms, label_long, mode) ==
  [kind |-> "row", frame_id |-> frame_id, timestamp_ms |-> ms,
   class_label |-> label_long, note |-> mode]

\* {root}/{class folder}/{video}_{short}_{frame:06d}.jpg
ImagePath(root, label_long, label_short, suffix) ==
  [root |-> root, dir |-> label_long, short |-> label_short, frame |-> suffix]

\* DataManager.save_image_safe: the image files after the call
save_image_safe(images, path, success) ==
  IF success THEN images \cup {path} ELSE images

\* c_label.split('_')[-1] if '_' in c_label else c_label
ShortOf(c_label) == IF Len(c_label) > 1 THEN <<Last(c_label)>> ELSE c_label

\* a ledger line with fewer than four fields, and one whose frame_id field is
\* not an integer: len(row) >= 4 fails for the first, int(row[1]) raises
\* ValueError for the second
ShortRow == [kind |-> "short", frame_id |-> 0, timestamp_ms |-> 0,
             class_label |-> <<"class", "z">>, note |-> "full"]
BadIdRow == [kind |-> "badid", frame_id |-> 0, timestamp_ms |-> 0,
             class_label |-> <<"class", "z">>, note |-> "full"]

\* _load_existing_markers that gives up at the first line it cannot use
RECURSIVE LoadRows_StopsAtMalformed(_, _, _)
LoadRows_StopsAtMalformed(lines, i, marked) ==
  IF i > Len(lines) THEN marked
  ELSE IF lines[i].kind = "row"
       THEN LoadRows_StopsAtMalformed(lines, i + 1,
              DictPut(marked, lines[i].frame_id, ShortOf(lines[i].class_label)))
       ELSE marked

\* DataManager._load_existing_markers: replay lines i.. of the file; a line
\* of kind "row" has at least four fields and an integer frame_id, any other
\* line (a header line among the data included) is skipped
RECURSIVE LoadRows(_, _, _)
LoadRows(lines, i, marked) ==
  IF i > Len(lines) THEN marked
  ELSE LoadRows(lines, i + 1,
         IF lines[i].kind = "row"
         THEN DictPut(marked, lines[i].frame_id, ShortOf(lines[i].class_label))
         ELSE marked)

\* the first line is skipped as the header
load_existing_markers(lines) == LoadRows(lines, 2, EmptyDict)

\* DataManager.__init__ on the ledger file at csv (<<>> when it does not exist)
NewDataManager(csv) ==
  LET file == IF csv = <<>> THEN <<HeaderLine>> ELSE csv
  IN [global_marked_frames |-> load_existing_markers(file),
      history_stack |-> <<>>]

\* _init_csv: the ledger file after DataManager.__init__
init_csv(csv) == IF csv = <<>> THEN <<HeaderLine>> ELSE csv

\* save_record that pushes its undo record although the append raised
save_record_PushesOnFailure(d, fs, frame_id, ms, label_long, label_short, mode, images_to_save, append_ok, write_ok) ==
  LET marked1 == DictPut(d.global_marked_frames, frame_id, label_short)
      row_data == Row(frame_id, ms, label_long, mode)
  IN [data |-> [global_marked_frames |-> marked1,
                history_stack |-> Append(d.history_stack,
                   [files |-> <<>>, csv_row |-> row_data, frame_id |-> frame_id])],
      fs |-> IF append_ok THEN [fs EXCEPT !.csv = Append(fs.csv, row_data)] ELSE fs,
      ret |-> IF append_ok THEN "None" ELSE "raised"]

\* save_record that writes and records the images whatever the mode
save_record_IgnoresMode(d, fs, frame_id, ms, label_long, label_short, mode, images_to_save, append_ok, write_ok) ==
  LET marked1 == DictPut(d.global_marked_frames, frame_id, label_short)
      row_data == Row(frame_id, ms, label_long, mode)
      saved_files == [i \in 1..Len(images_to_save) |->
                        ImagePath("out", label_long, label_short,
                                  images_to_save[i].suffix)]
      written == {saved_files[i] : i \in (1..Len(saved_files)) \cap write_ok}
  IN IF ~append_ok
     THEN [data |-> [d EXCEPT !.global_marked_frames = marked1],
           fs |-> fs, ret |-> "raised"]
     ELSE [data |-> [global_marked_frames |-> marked1,
                     history_stack |-> Append(d.history_stack,
                        [files |-> saved_files, csv_row |-> row_data,
                         frame_id |-> frame_id])],
           fs |-> [fs EXCEPT !.csv = Append(fs.csv, row_data),
                             !.images = fs.images \cup written],
           ret |-> "None"]

\* DataManager.save_record.  append_ok: the ledger append succeeds;
\* write_ok: the positions of images_to_save whose file write succeeds.
save_record(d, fs, frame_id, ms, label_long, label_short, mode, images_to_save, append_ok, write_ok) ==
  LET marked1 == DictPut(d.global_marked_frames, frame_id, label_short)
      row_data == Row(frame_id, ms, label_long, mode)
      saved_files == IF mode = "full"
                     THEN [i \in 1..Len(images_to_save) |->
                             ImagePath("out", label_long, label_short,
                                       images_to_save[i].suffix)]
                     ELSE <<>>
      written == {saved_files[i] : i \in (1..Len(saved_files)) \cap write_ok}
  IN IF ~append_ok
     THEN [data |-> [d EXCEPT !.global_marked_frames = marked1],
           fs |-> fs, ret |-> "raised"]
     ELSE [data |-> [global_marked_frames |-> marked1,
                     history_stack |-> Append(d.history_stack,
                        [files |-> saved_files, csv_row |-> row_data,
                         frame_id |-> frame_id])],
           fs |-> [fs EXCEPT !.csv = Append(fs.csv, row_data),
                             !.images = fs.images \cup written],
           ret |-> "None"]

\* undo_last that updates the marker cache before it rewrites the ledger
undo_pop_MemoryFirst(d, fs, rewrite_ok) ==
  LET last_record == Last(d.history_stack)
      d1 == [global_marked_frames |->
               DictDel(d.global_marked_frames, last_record.frame_id),
             history_stack |-> Front(d.history_stack)]
      images1 == fs.images \ Range(last_record.files)
  IN IF ~rewrite_ok
     THEN [data |-> d1, fs |-> [fs EXCEPT !.images = images1], ret |-> "False"]
     ELSE [data |-> d1,
           fs |-> [fs EXCEPT !.images = images1,
                             !.csv = IF Len(fs.csv) > 1 THEN Front(fs.csv)
                                     ELSE fs.csv],
           ret |-> "True"]

\* undo_last that drops the oldest data row of the ledger instead of the last
undo_pop_DropsFirstRow(d, fs, rewrite_ok) ==
  LET last_record == Last(d.history_stack)
      lines == fs.csv
      fid == last_record.frame_id
  IN [data |-> [global_marked_frames |->
                  IF fid \in DOMAIN d.global_marked_frames
                  THEN DictDel(d.global_marked_frames, fid)
                  ELSE d.global_marked_frames,
                history_stack |-> Front(d.history_stack)],
      fs |-> [fs EXCEPT !.images = fs.images \ Range(last_record.files),
                        !.csv = IF Len(lines) > 1
                                THEN <<lines[1]>> \o SubSeq(lines, 3, Len(lines))
                                ELSE lines],
      ret |-> "True"]

\* DataManager.undo_last past its guard.  rewrite_ok: the ledger file can be
\* opened for reading and for rewriting; when it cannot, the file is as it was
undo_pop(d, fs, rewrite_ok) ==
  LET last_record == Last(d.history_stack)
      popped == Front(d.history_stack)
      images1 == fs.images \ Range(last_record.files)
      lines == fs.csv
      fid == last_record.frame_id
  IN IF ~rewrite_ok
     THEN [data |-> [d EXCEPT !.history_stack = popped],
           fs |-> [fs EXCEPT !.images = images1],
           ret |-> "False"]
     ELSE [data |-> [global_marked_frames |->
                       IF fid \in DOMAIN d.global_marked_frames
                       THEN DictDel(d.global_marked_frames, fid)
                       ELSE d.global_marked_frames,
                     history_stack |-> popped],
           fs |-> [fs EXCEPT !.images = images1,
                             !.csv = IF Len(lines) > 1 THEN Front(lines)
                                     ELSE lines],
           ret |-> "True"]

\* undo_last without its empty-stack guard: the ledger is truncated anyway
undo_last_NoGuard(d, fs, rewrite_ok) ==
  IF d.history_stack = <<>>
  THEN [data |-> d,
        fs |-> [fs EXCEPT !.csv = IF Len(fs.csv) > 1 THEN Front(fs.csv)
                                  ELSE fs.csv],
        ret |-> "True"]
  ELSE undo_pop(d, fs, rewrite_ok)

\* DataManager.undo_last
undo_last(d, fs, rewrite_ok) ==
  IF d.history_stack = <<>>
  THEN [data |-> d, fs |-> fs, ret |-> "False"]
  ELSE undo_pop(d, fs, rewrite_ok)

\* ------------------------------------------------------------ LabelingApp
\* the extraction loop of _handle_tagging over the planned targets: seek to
\* each one and keep a copy of the cached frame, tagged with the target
RECURSIVE ExtractLoop(_, _, _, _)
ExtractLoop(v, targets, j, images) ==
  IF j > Len(targets) THEN [video |-> v, images |-> images]
  ELSE LET v1 == seek(v, targets[j], TotalFrames)
       IN ExtractLoop(v1, targets, j + 1,
            IF v1.frame_cache # NoFrame
            THEN Append(images, [frame |-> v1.frame_cache, suffix |-> targets[j]])
            ELSE images)

\* handle_tagging whose restoring seek goes to the stream position, one past
\* the marked frame, instead of the marked frame
handle_tagging_RestoresStreamPos(c, v, key) ==
  LET label == KeyMap(c.class_names)[key]
      short_code == <<BASE_CHARS[KeyIndex(key)]>>
      curr_idx == v.current_frame_idx
      ex == ExtractLoop(v, TaggingTargets(curr_idx, c.extract_num, c.interval,
                                          TotalFrames), 1, <<>>)
      v2 == seek(ex.video, v.pos, TotalFrames)
  IN [video |-> v2, frame_id |-> curr_idx, ms |-> get_ms(v2, c.fps),
      label_long |-> <<"class">> \o label, label_short |-> short_code,
      images |-> ex.images,
      seeks |-> TaggingTargets(curr_idx, c.extract_num, c.interval,
                               TotalFrames) \o <<v.pos>>]

\* LabelingApp._handle_tagging up to the call of save_record: the video after
\* the seeks, the arguments handed to save_record, and seeks, the targets of
\* the video.seek calls it made, in order (the mode is not consulted)
handle_tagging(c, v, key) ==
  LET label == KeyMap(c.class_names)[key]
      short_code == <<BASE_CHARS[KeyIndex(key)]>>
      curr_idx == v.current_frame_idx
      backup_pos == curr_idx
      targets == TaggingTargets(curr_idx, c.extract_num, c.interval, TotalFrames)
      ex == ExtractLoop(v, targets, 1, <<>>)
      v2 == seek(ex.video, backup_pos, TotalFrames)
  IN [video |-> v2, frame_id |-> curr_idx, ms |-> get_ms(v2, c.fps),
      label_long |-> <<"class">> \o label, label_short |-> short_code,
      images |-> ex.images,
      seeks |-> targets \o <<backup_pos>>]

\* rebuild_dataset (A): the class folder of a short code, by reverse lookup in
\* key_map in key order, else class_{short_code}
RebuildLabel(c, short_code) ==
  LET hits == {i \in 1..Len(BASE_KEYS) : <<Chr(BASE_KEYS[i])>> = short_code}
  IN IF hits # {}
     THEN <<"class">> \o KeyMap(c.class_names)[BASE_KEYS[
            CHOOSE i \in hits : \A h \in hits : i <= h]]
     ELSE <<"class">> \o short_code

\* sorted(markers.items(), key=frame id): the frame ids in ascending order
RECURSIVE SortedIds(_)
SortedIds(S) ==
  IF S = {} THEN <<>>
  ELSE LET m == CHOOSE x \in S : \A y \in S : x <= y
       IN <<m>> \o SortedIds(S \ {m})

\* RebuildFrames without the exists() test: every decoded frame is written
RECURSIVE RebuildFrames_AlwaysWrites(_, _, _, _, _, _)
RebuildFrames_AlwaysWrites(st, targets, j, label_long_name, short_code, write_ok) ==
  IF j > Len(targets) THEN st
  ELSE LET t_frame == targets[j]
           v1 == seek(st.video, t_frame, TotalFrames)
           ret == CanRead(v1, TotalFrames)
           v2 == read(v1, TotalFrames)
           save_path == ImagePath("new", label_long_name, short_code, t_frame)
       IN RebuildFrames_AlwaysWrites(
            [video |-> v2,
             images |-> IF ret
                        THEN save_image_safe(st.images, save_path, write_ok)
                        ELSE st.images,
             wrote |-> IF ret /\ write_ok THEN st.wrote \cup {save_path}
                       ELSE st.wrote,
             taken |-> IF ret /\ write_ok
                       THEN st.taken \cup {[name |-> t_frame,
                                            frame |-> v2.frame_cache]}
                       ELSE st.taken],
            targets, j + 1, label_long_name, short_code, write_ok)

\* rebuild_dataset (D) for one marker: seek, read again, write when absent.
\* taken pairs the index in the name of each file written with the frame
\* that read() returned for it
RECURSIVE RebuildFrames(_, _, _, _, _, _)
RebuildFrames(st, targets, j, label_long_name, short_code, write_ok) ==
  IF j > Len(targets) THEN st
  ELSE LET t_frame == targets[j]
           v1 == seek(st.video, t_frame, TotalFrames)
           ret == CanRead(v1, TotalFrames)
           v2 == read(v1, TotalFrames)
           save_path == ImagePath("new", label_long_name, short_code, t_frame)
           do_write == ret /\ save_path \notin st.images
       IN RebuildFrames(
            [video |-> v2,
             images |-> IF do_write
                        THEN save_image_safe(st.images, save_path, write_ok)
                        ELSE st.images,
             wrote |-> IF do_write /\ write_ok THEN st.wrote \cup {save_path}
                       ELSE st.wrote,
             taken |-> IF do_write /\ write_ok
                       THEN st.taken \cup {[name |-> t_frame,
                                            frame |-> v2.frame_cache]}
                       ELSE st.taken],
            targets, j + 1, label_long_name, short_code, write_ok)

\* rebuild_dataset 5: the markers in ascending frame order
RECURSIVE RebuildMarkers(_, _, _, _, _, _, _, _)
RebuildMarkers(st, c, markers, ids, idx, new_extract_num, new_interval, write_ok) ==
  IF idx > Len(ids) THEN st
  ELSE LET center_frame_id == ids[idx]
           short_code == markers[center_frame_id]
       IN RebuildMarkers(
            RebuildFrames(st,
              RebuildTargets(center_frame_id, new_extract_num, new_interval,
                             TotalFrames),
              1, RebuildLabel(c, short_code), short_code, write_ok),
            c, markers, ids, idx + 1, new_extract_num, new_interval, write_ok)

\* rebuild_dataset that moves the ledger into the new root instead of copying
rebuild_dataset_MovesLedger(c, v, d, f, new_extract_num, new_interval, copy_csv, write_ok) ==
  LET markers == d.global_marked_frames
  IN IF DOMAIN markers = {}
     THEN [video |-> v, fs |-> f, wrote |-> {}, taken |-> {}]
     ELSE LET f1 == IF copy_csv /\ f.csv # <<>>
                    THEN [f EXCEPT !.new_csv = f.csv, !.csv = <<>>] ELSE f
              st == RebuildMarkers([video |-> v, images |-> f1.images, wrote |-> {},
                                      taken |-> {}],
                      c, markers, SortedIds(DOMAIN markers), 1,
                      new_extract_num, new_interval, write_ok)
          IN [video |-> st.video, fs |-> [f1 EXCEPT !.images = st.images],
              wrote |-> st.wrote, taken |-> st.taken]

\* LabelingApp.rebuild_dataset: the video, the file system and the set of
\* image files this run wrote
rebuild_dataset(c, v, d, f, new_extract_num, new_interval, copy_csv, write_ok) ==
  LET markers == d.global_marked_frames
  IN IF DOMAIN markers = {}
     THEN [video |-> v, fs |-> f, wrote |-> {}, taken |-> {}]
     ELSE LET f1 == IF copy_csv /\ f.csv # <<>>
                    THEN [f EXCEPT !.new_csv = f.csv] ELSE f
              st == RebuildMarkers([video |-> v, images |-> f1.images, wrote |-> {},
                                      taken |-> {}],
                      c, markers, SortedIds(DOMAIN markers), 1,
                      new_extract_num, new_interval, write_ok)
          IN [video |-> st.video, fs |-> [f1 EXCEPT !.images = st.images],
              wrote |-> st.wrote, taken |-> st.taken]

\* --------------------------------------------------------- ProjectManager
\* The value column of project_config.csv is text.  A text is modelled by
\* what it spells: t is "list" for the str() of a list, "int" for a decimal
\* integer, "word" for anything else; v is the value spelled.
ListText(names) == [t |-> "list", v |-> names]
IntText(n) == [t |-> "int", v |-> n]

\* ast.literal_eval and int(): which texts they accept
LiteralEvalOk(text) == text.t \in {"list", "int"}
IntOk(text) == text.t = "int"

\* the header row ['parameter', 'value', 'description']
ConfigHeader == [key |-> "parameter", val |-> [t |-> "word", v |-> "value"]]

\* the dict {'class_names': ..., 'extract_num': ..., 'interval': ...}
ConfigDict(class_names, extract_num, interval) ==
  DictPut(DictPut(DictPut(EmptyDict, "class_names", class_names),
                  "extract_num", extract_num), "interval", interval)

\* ProjectManager._save_config: the configuration file after the call; a
\* failure to open it for writing is printed and leaves it as it was
save_config(file, config_dict, save_ok) ==
  IF save_ok
  THEN << ConfigHeader,
          [key |-> "class_names", val |-> ListText(config_dict["class_names"])],
          [key |-> "extract_num", val |-> IntText(config_dict["extract_num"])],
          [key |-> "interval", val |-> IntText(config_dict["interval"])] >>
  ELSE file

\* the row loop of _init_configuration from row i on: ok is false when
\* literal_eval or int() raises
RECURSIVE LoadConfigRows(_, _, _)
LoadConfigRows(file, i, loaded) ==
  IF i > Len(file) THEN [ok |-> TRUE, config |-> loaded]
  ELSE LET key == file[i].key
           val_str == file[i].val
       IN IF key = "class_names"
          THEN IF LiteralEvalOk(val_str)
               THEN LoadConfigRows(file, i + 1, DictPut(loaded, key, val_str.v))
               ELSE [ok |-> FALSE, config |-> loaded]
          ELSE IF key \in {"extract_num", "interval"}
          THEN IF IntOk(val_str)
               THEN LoadConfigRows(file, i + 1, DictPut(loaded, key, val_str.v))
               ELSE [ok |-> FALSE, config |-> loaded]
          ELSE LoadConfigRows(file, i + 1, loaded)

\* _init_configuration that writes and returns what the caller passed,
\* whether or not a configuration file exists
init_configuration_PrefersCaller(file, input_classes, input_extract, input_interval, read_ok, save_ok) ==
  LET current_config == ConfigDict(input_classes, input_extract, input_interval)
  IN [config |-> current_config,
      file |-> save_config(file, current_config, save_ok)]

\* ProjectManager._init_configuration: the effective configuration and the
\* configuration file after the call.  read_ok: the file can be opened and read
init_configuration(file, input_classes, input_extract, input_interval, read_ok, save_ok) ==
  LET current_config == ConfigDict(input_classes, input_extract, input_interval)
      loaded == LoadConfigRows(file, 1, EmptyDict)
  IN IF file # <<>> /\ read_ok /\ loaded.ok
     THEN [config |-> loaded.config, file |-> file]
     ELSE [config |-> current_config,
           file |-> save_config(file, current_config, save_ok)]

\* ------------------------------------------------------------------ state
VARIABLES
  cfg,          \* class_names, extract_num, interval, mode of the app; fps of the video
  video,        \* the VideoController of the running app
  data,         \* the DataManager: global_marked_frames, history_stack
  fs,           \* the files: csv (ledger lines), images, new_csv (rebuild's copy)
  paused,       \* LabelingApp.paused
  pc,           \* "intro", "loop" (top of run's loop), "done", "crashed"
  ret,          \* what the last DataManager call returned
  last,         \* the last operation on the DataManager or the files
  last_rebuild, \* the last rebuild run: parameters, markers, files written,
                \* and whether the run before it had the same parameters and markers
  plan_in,      \* inputs of the planner and of the video's own operations:
                \* center (or seek target), lookback, interval, total
  plan_out,     \* planner outputs: live, rebuild
  project       \* the ProjectManager: config_file (project_config.csv, <<>>
                \* while it does not exist), config (the effective one) and
                \* supplied (what the caller passed to the last construction)

vars == <<cfg, video, data, fs, paused, pc, ret, last,
          last_rebuild, plan_in, plan_out, project>>
appVars == <<cfg, video, data, fs, paused, pc, ret, last,
             last_rebuild, project>>

\* the labeling sessions the model runs: both modes, each kind of class
\* name, look-backs 0..2 and intervals 1..2
Configs ==
  { [class_names |-> << <<"car">> >>, extract_num |-> 1, interval |-> 1,
     mode |-> "full", fps |-> 25],
    [class_names |-> <<>>, extract_num |-> 2, interval |-> 1,
     mode |-> "full", fps |-> 30],
    [class_names |-> << <<"my", "car">> >>, extract_num |-> 1, interval |-> 2,
     mode |-> "full", fps |-> 25],
    [class_names |-> << <<"car">> >>, extract_num |-> 0, interval |-> 1,
     mode |-> "mark_only", fps |-> 25] }

NoRebuild == [done |-> FALSE, n |-> 0, k |-> 0, markers |-> EmptyDict,
              wrote |-> {}, repeat |-> FALSE]

\* a project directory without a configuration file
NoProject == [config_file |-> <<>>, config |-> EmptyDict, supplied |-> EmptyDict]

\* LabelingApp.__init__ on a project with no ledger yet
AppStart ==
  /\ video = NewVideo
  /\ data = NewDataManager(<<>>)
  /\ fs = [csv |-> init_csv(<<>>), images |-> {}, new_csv |-> <<>>]
  /\ paused = FALSE
  /\ pc = "intro"
  /\ ret = "None"
  /\ last = "open"
  /\ last_rebuild = NoRebuild
  /\ project = NoProject

PlanIdle ==
  /\ plan_in = [center |-> 0, lookback |-> 0, interval |-> 1, total |-> 1]
  /\ plan_out = [live |-> <<>>, rebuild |-> <<>>, ran |-> {}]

AppInit == cfg \in Configs /\ AppStart

Init == AppInit /\ PlanIdle

\* ---------------------------------------------------------------- actions
\* _show_intro on a video with a first frame, then SPACE
IntroSpace ==
  /\ pc = "intro"
  /\ CanRead(video, TotalFrames)
  /\ video' = read(video, TotalFrames)
  /\ pc' = "loop"
  /\ UNCHANGED <<cfg, data, fs, paused, ret, last, last_rebuild, plan_in, plan_out, project>>

\* _show_intro, then ESC: cleanup() and return into run's loop
IntroEsc ==
  /\ pc = "intro"
  /\ CanRead(video, TotalFrames)
  /\ video' = release(read(video, TotalFrames))
  /\ pc' = "loop"
  /\ UNCHANGED <<cfg, data, fs, paused, ret, last, last_rebuild, plan_in, plan_out, project>>

\* run, step 1 of an iteration: the next frame is read unless paused
FrameReady ==
  IF paused THEN video.frame_cache # NoFrame ELSE CanRead(video, TotalFrames)
Prepared == IF paused THEN video ELSE read(video, TotalFrames)

\* an iteration whose step 1 finds no frame: the loop ends and cleanup() runs
EndOfStream ==
  /\ pc = "loop"
  /\ ~FrameReady
  /\ video' = release(video)
  /\ pc' = "done"
  /\ UNCHANGED <<cfg, data, fs, paused, ret, last, last_rebuild, plan_in, plan_out, project>>

\* an iteration with ESC: running = False, the loop ends, cleanup()
KeyEsc ==
  /\ pc = "loop"
  /\ FrameReady
  /\ video' = release(Prepared)
  /\ pc' = "done"
  /\ UNCHANGED <<cfg, data, fs, paused, ret, last, last_rebuild, plan_in, plan_out, project>>

\* an iteration with SPACE
KeySpace ==
  /\ pc = "loop"
  /\ FrameReady
  /\ video' = Prepared
  /\ paused' = ~paused
  /\ UNCHANGED <<cfg, data, fs, pc, ret, last, last_rebuild, plan_in, plan_out, project>>

\* an iteration with no key within the delay, a speed key, or an unmapped key
KeyOther ==
  /\ pc = "loop"
  /\ FrameReady
  /\ video' = Prepared
  /\ UNCHANGED <<cfg, data, fs, paused, pc, ret, last, last_rebuild, plan_in, plan_out, project>>

\* an iteration with a class key: _handle_tagging and save_record.  failing:
\* the positions of the captured images whose save_image_safe returns False
TagWith(key, append_ok, failing) ==
  /\ pc = "loop"
  /\ FrameReady
  /\ Len(fs.csv) - 1 < MaxRows
  /\ LET t == handle_tagging(cfg, Prepared, key)
         r == save_record(data, fs, t.frame_id, t.ms, t.label_long,
                          t.label_short, cfg.mode, t.images, append_ok,
                          (1..Len(t.images)) \ failing)
     IN /\ video' = t.video
        /\ data' = r.data
        /\ fs' = r.fs
        /\ ret' = r.ret
        /\ pc' = IF r.ret = "raised" THEN "crashed" ELSE "loop"
        /\ last' = IF r.ret = "raised" THEN "capture_failed" ELSE "capture"
  /\ UNCHANGED <<cfg, paused, last_rebuild, plan_in, plan_out, project>>

\* the same iteration with every image write succeeding
Tag(key, append_ok) == TagWith(key, append_ok, {})

KeyTag == \E key \in PressedKeys : Tag(key, TRUE)

\* an iteration with BACKSPACE while paused: undo_last
Backspace(rewrite_ok) ==
  /\ pc = "loop"
  /\ paused
  /\ FrameReady
  /\ LET r == undo_last(data, fs, rewrite_ok)
     IN /\ data' = r.data
        /\ fs' = r.fs
        /\ ret' = r.ret
  /\ last' = IF rewrite_ok THEN "undo" ELSE "undo_failed"
  /\ UNCHANGED <<cfg, video, paused, pc, last_rebuild, plan_in, plan_out, project>>

KeyBackspace == Backspace(TRUE)

\* an iteration with 'd' while paused: one frame back
KeyD ==
  /\ pc = "loop"
  /\ paused
  /\ FrameReady
  /\ video' = seek(video, Max(0, video.current_frame_idx - 1), TotalFrames)
  /\ UNCHANGED <<cfg, data, fs, paused, pc, ret, last, last_rebuild, plan_in, plan_out, project>>

\* an iteration with 'f' while paused: one frame forward
KeyF ==
  /\ pc = "loop"
  /\ paused
  /\ FrameReady
  /\ video' = seek(video, video.current_frame_idx + 1, TotalFrames)
  /\ UNCHANGED <<cfg, data, fs, paused, pc, ret, last, last_rebuild, plan_in, plan_out, project>>

\* a later run on the same video and project: LabelingApp.__init__ again
NewSession ==
  /\ pc \in {"done", "crashed"}
  /\ video' = NewVideo
  /\ data' = NewDataManager(fs.csv)
  /\ fs' = [fs EXCEPT !.csv = init_csv(fs.csv)]
  /\ paused' = FALSE
  /\ pc' = "intro"
  /\ ret' = "None"
  /\ last' = "open"
  /\ UNCHANGED <<cfg, last_rebuild, plan_in, plan_out, project>>

\* the <<new_extract_num, new_interval>> pairs rebuilds are run with
RebuildParams == { <<0, 1>>, <<1, 1>>, <<2, 1>>, <<1, 2>> }

\* ProjectManager.rebuild_batch for this video: rebuild_dataset on the freshly
\* constructed app, then app.cleanup()
RebuildBatchItem ==
  /\ pc = "intro"
  /\ \E params \in RebuildParams, copy_csv \in BOOLEAN :
       LET new_extract_num == params[1]
           new_interval == params[2]
           r == rebuild_dataset(cfg, video, data, fs, new_extract_num,
                                new_interval, copy_csv, TRUE)
       IN /\ video' = release(r.video)
          /\ fs' = r.fs
          /\ last_rebuild' = [done |-> TRUE, n |-> new_extract_num,
                              k |-> new_interval,
                              markers |-> data.global_marked_frames,
                              wrote |-> r.wrote,
                              repeat |-> /\ last_rebuild.done
                                         /\ last_rebuild.n = new_extract_num
                                         /\ last_rebuild.k = new_interval
                                         /\ last_rebuild.markers =
                                              data.global_marked_frames]
  /\ pc' = "done"
  /\ last' = "rebuild"
  /\ UNCHANGED <<cfg, data, paused, ret, plan_in, plan_out, project>>

Next ==
  \/ IntroSpace
  \/ IntroEsc
  \/ EndOfStream
  \/ KeyEsc
  \/ KeySpace
  \/ KeyOther
  \/ KeyTag
  \/ KeyBackspace
  \/ KeyD
  \/ KeyF
  \/ NewSession

Spec == Init /\ [][Next]_vars

\* ------------------------------------------------- storage failures
\* a class key whose ledger append raises: the exception leaves run()
KeyTagAppendFails == \E key \in PressedKeys : Tag(key, FALSE)

\* BACKSPACE while paused, and the ledger cannot be read or reopened for writing
KeyBackspaceRewriteFails ==
  /\ data.history_stack # <<>>
  /\ Backspace(FALSE)

FaultNext ==
  \/ Next
  \/ KeyTagAppendFails
  \/ KeyBackspaceRewriteFails

\* the sessions run with failing storage: one per mode
FaultConfigs == {c \in Configs : c.class_names = << <<"car">> >>}

FaultInit == cfg \in FaultConfigs /\ AppStart /\ PlanIdle

FaultSpec == FaultInit /\ [][FaultNext]_vars

\* a Full-mode class key whose ledger append succeeds while the writes of
\* some of the captured images fail: save_image_safe swallows each failure
KeyTagWriteFails ==
  /\ cfg.mode = "full"
  /\ \E key \in PressedKeys, failing \in SUBSET (1..(MaxLookback + 1)) :
       /\ failing # {}
       /\ pc = "loop" /\ FrameReady
       /\ failing \subseteq 1..Len(handle_tagging(cfg, Prepared, key).images)
       /\ TagWith(key, TRUE, failing)

WriteFaultNext ==
  \/ Next
  \/ KeyTagWriteFails

WriteFaultSpec == FaultInit /\ [][WriteFaultNext]_vars

\* ------------------------------------------------- sessions in either mode
\* a later run on the same video and project with the mode its caller passes:
\* mode is a constructor argument and is not part of the stored configuration
NewSessionInMode ==
  /\ pc \in {"done", "crashed"}
  /\ \E mode \in {"full", "mark_only"} : cfg' = [cfg EXCEPT !.mode = mode]
  /\ video' = NewVideo
  /\ data' = NewDataManager(fs.csv)
  /\ fs' = [fs EXCEPT !.csv = init_csv(fs.csv)]
  /\ paused' = FALSE
  /\ pc' = "intro"
  /\ ret' = "None"
  /\ last' = "open"
  /\ UNCHANGED <<last_rebuild, plan_in, plan_out, project>>

ModeNext ==
  \/ Next
  \/ NewSessionInMode

\* the project's first session runs in Full mode
ModeInit ==
  /\ cfg = [class_names |-> << <<"car">> >>, extract_num |-> 1, interval |-> 1,
            mode |-> "full", fps |-> 25]
  /\ AppStart
  /\ PlanIdle

ModeSpec == ModeInit /\ [][ModeNext]_vars

\* ------------------------------------------------------------- rebuild
\* the rows captures can have appended under configuration c
CaptureRows(c) ==
  { Row(f, get_ms([current_frame_idx |-> f], c.fps),
        <<"class">> \o KeyMap(c.class_names)[key], c.mode) :
      f \in 0..(TotalFrames - 1), key \in PressedKeys }

\* the ledgers earlier sessions can have left behind
Ledgers(c) ==
  { <<HeaderLine>> \o rows :
      rows \in UNION { [1..n -> CaptureRows(c)] : n \in 0..MaxRows } }

RebuildConfigs ==
  { [class_names |-> names, extract_num |-> 5, interval |-> 5,
     mode |-> "mark_only", fps |-> 25] : names \in ClassNameChoices }

\* the app rebuild_batch constructs on a project labeled earlier
RebuildInit ==
  /\ cfg \in RebuildConfigs
  /\ \E csv \in Ledgers(cfg) :
       /\ fs = [csv |-> csv, images |-> {}, new_csv |-> <<>>]
       /\ data = NewDataManager(csv)
  /\ video = NewVideo
  /\ paused = FALSE
  /\ pc = "intro"
  /\ ret = "None"
  /\ last = "open"
  /\ last_rebuild = NoRebuild
  /\ project = NoProject
  /\ PlanIdle

RebuildNext ==
  \/ RebuildBatchItem
  \/ NewSession

RebuildSpec == RebuildInit /\ [][RebuildNext]_vars

\* ------------------------------------------------------------- planner
PlanInit ==
  /\ cfg = [class_names |-> <<>>, extract_num |-> 2, interval |-> 1,
            mode |-> "full", fps |-> 30]
  /\ AppStart
  /\ plan_in \in [center : (0 - PlanSlack)..(TotalFrames + PlanSlack),
                   lookback : 0..MaxLookback, interval : 1..MaxInterval,
                   total : 1..(TotalFrames + 1)]
  /\ plan_out = [live |-> <<>>, rebuild |-> <<>>, ran |-> {}]

\* the index list the capture loop visits for a mark at center
PlanLive ==
  /\ "live" \notin plan_out.ran
  /\ plan_out' = [plan_out EXCEPT
       !.live = TaggingTargets(plan_in.center, plan_in.lookback,
                               plan_in.interval, plan_in.total),
       !.ran = @ \cup {"live"}]
  /\ UNCHANGED <<appVars, plan_in>>

\* the index list the rebuild loop visits for a marker at center
PlanRebuild ==
  /\ "rebuild" \notin plan_out.ran
  /\ plan_out' = [plan_out EXCEPT
       !.rebuild = RebuildTargets(plan_in.center, plan_in.lookback,
                                  plan_in.interval, plan_in.total),
       !.ran = @ \cup {"rebuild"}]
  /\ UNCHANGED <<appVars, plan_in>>

PlanNext ==
  \/ PlanLive
  \/ PlanRebuild

PlanSpec == PlanInit /\ [][PlanNext]_vars

\* ------------------------------------------------- damaged ledgers
\* the ledgers earlier sessions can have left behind, with lines damaged since
MalformedLedgers(c) ==
  { <<HeaderLine>> \o rows :
      rows \in UNION { [1..n -> CaptureRows(c) \cup {ShortRow, BadIdRow}] :
                         n \in 0..MaxRows } }

\* a project between two sessions: the ledger is on disk, no app is running
LoadInit ==
  /\ cfg \in Configs
  /\ \E csv \in MalformedLedgers(cfg) :
       fs = [csv |-> csv, images |-> {}, new_csv |-> <<>>]
  /\ data = [global_marked_frames |-> EmptyDict, history_stack |-> <<>>]
  /\ video = release(NewVideo)
  /\ paused = FALSE
  /\ pc = "done"
  /\ ret = "None"
  /\ last = "closed"
  /\ last_rebuild = NoRebuild
  /\ project = NoProject
  /\ PlanIdle

\* a session that opens the ledger and is left at once
LoadNext ==
  \/ NewSession
  \/ IntroEsc
  \/ EndOfStream

LoadSpec == LoadInit /\ [][LoadNext]_vars

\* ------------------------------------------------- the video on its own
\* a video of plan_in.total frames, opened and not read yet
VideoInit ==
  /\ cfg = [class_names |-> <<>>, extract_num |-> 2, interval |-> 1,
            mode |-> "full", fps |-> 30]
  /\ AppStart
  /\ plan_in \in [center : {0}, lookback : {0}, interval : {1},
                   total : 1..(TotalFrames + 1)]
  /\ plan_out = [live |-> <<>>, rebuild |-> <<>>, ran |-> {}]

\* VideoController.read; ret is the flag it returns
VideoRead ==
  /\ video' = read(video, plan_in.total)
  /\ ret' = IF CanRead(video, plan_in.total) THEN "True" ELSE "False"
  /\ last' = "read"
  /\ UNCHANGED <<cfg, data, fs, paused, pc, last_rebuild, plan_in, plan_out, project>>

\* VideoController.seek(i), i inside or outside the video
VideoSeek ==
  /\ \E i \in (0 - PlanSlack)..(plan_in.total + PlanSlack) :
       /\ video' = seek(video, i, plan_in.total)
       /\ plan_in' = [plan_in EXCEPT !.center = i]
  /\ last' = "seek"
  /\ UNCHANGED <<cfg, data, fs, paused, pc, ret, last_rebuild, plan_out, project>>

\* 'd' on a paused frame: seek(max(0, current - 1))
VideoStepBack ==
  /\ video.frame_cache # NoFrame
  /\ video' = seek(video, Max(0, video.current_frame_idx - 1), plan_in.total)
  /\ last' = "d"
  /\ UNCHANGED <<cfg, data, fs, paused, pc, ret, last_rebuild, plan_in, plan_out, project>>

\* 'f' on a paused frame: seek(current + 1)
VideoStepForward ==
  /\ video.frame_cache # NoFrame
  /\ video' = seek(video, video.current_frame_idx + 1, plan_in.total)
  /\ last' = "f"
  /\ UNCHANGED <<cfg, data, fs, paused, pc, ret, last_rebuild, plan_in, plan_out, project>>

VideoNext ==
  \/ VideoRead
  \/ VideoSeek
  \/ VideoStepBack
  \/ VideoStepForward

VideoSpec == VideoInit /\ [][VideoNext]_vars

\* ------------------------------------------ the project configuration
\* ProjectManager.__init__ on the project directory, with the class_names,
\* extract_num and interval of its caller
ProjectConstruct ==
  /\ \E names \in ClassNameChoices, n \in 0..MaxLookback, k \in 1..MaxInterval,
        save_ok \in BOOLEAN :
       LET r == init_configuration(project.config_file, names, n, k, TRUE, save_ok)
       IN project' = [config_file |-> r.file, config |-> r.config,
                      supplied |-> ConfigDict(names, n, k)]
  /\ UNCHANGED <<cfg, video, data, fs, paused, pc, ret, last, last_rebuild,
                 plan_in, plan_out>>

ConfigNext ==
  \/ ProjectConstruct

\* a project directory before its first ProjectManager
ConfigInit == ModeInit

ConfigSpec == ConfigInit /\ [][ConfigNext]_vars

\* ================================================================= claims
\* the frame ids of the well-formed data rows of a ledger file
LedgerFrameIds(lines) ==
  {lines[i].frame_id : i \in {j \in 2..Len(lines) : lines[j].kind = "row"}}

\* C1: from every state a session reaches, a Full-mode capture at the current
\* frame followed at once by undo leaves the image files under the output
\* root and the ledger rows exactly as they were before the capture.
C1_UndoInvertsCapture ==
  (pc = "loop" /\ FrameReady /\ cfg.mode = "full") =>
    \A key \in PressedKeys :
      LET t == handle_tagging(cfg, Prepared, key)
          r1 == save_record(data, fs, t.frame_id, t.ms, t.label_long,
                            t.label_short, cfg.mode, t.images, TRUE,
                            1..Len(t.images))
          r2 == undo_last(r1.data, r1.fs, TRUE)
      IN /\ r2.ret = "True"
         /\ r2.fs.images = fs.images
         /\ r2.fs.csv = fs.csv

\* C2: when every ledger row was appended by a capture of this session and the
\* rows' frame ids are pairwise distinct, a new DataManager on the same ledger
\* file loads a marker index equal to the one held in memory.
C2_ReloadEqualsMemory ==
  ( /\ Len(data.history_stack) = Len(fs.csv) - 1
    /\ Len(fs.csv) > 1
    /\ Cardinality(LedgerFrameIds(fs.csv)) = Len(fs.csv) - 1 )
  => NewDataManager(fs.csv).global_marked_frames = data.global_marked_frames

\* C3: after any captures and undos, the frame ids in the in-memory marker
\* index are exactly the frame ids that have a row in the ledger file.
C3_IndexKeysAreLedgerFrames ==
  pc \in {"intro", "loop", "done"} =>
    DOMAIN data.global_marked_frames = LedgerFrameIds(fs.csv)

\* C4: undo with an empty undo stack returns false and changes neither the
\* ledger file, nor any image file, nor the marker index.
C4_UndoOnEmptyStack ==
  [][(KeyBackspace /\ data.history_stack = <<>>)
       => (ret' = "False" /\ fs' = fs /\ data' = data)]_vars

\* an undo was just refused on an empty stack while the ledger holds rows of
\* an earlier session
C4_Witness ==
  /\ last = "undo"
  /\ ret = "False"
  /\ data.history_stack = <<>>
  /\ Len(fs.csv) > 1

\* every element of a plan lies in [0, total) and the plan never decreases
PlanInVideo(plan, total) ==
  /\ \A i \in 1..Len(plan) : 0 <= plan[i] /\ plan[i] < total
  /\ \A i \in 1..(Len(plan) - 1) : plan[i] <= plan[i + 1]

\* C5: for every centre, look-back >= 0, interval >= 1 and total > 0, every
\* index planned by the capture loop and by the rebuild loop lies in
\* [0, total), and each planned sequence is non-decreasing.
C5_PlanWithinVideo ==
  /\ "live" \in plan_out.ran => PlanInVideo(plan_out.live, plan_in.total)
  /\ "rebuild" \in plan_out.ran => PlanInVideo(plan_out.rebuild, plan_in.total)

\* both loops planned, the capture plan holds several indices and lost some
\* to the range test
C5_Witness ==
  /\ plan_out.ran = {"live", "rebuild"}
  /\ Len(plan_out.live) >= 2
  /\ Len(plan_out.live) < plan_in.lookback + 1
  /\ Len(plan_out.rebuild) >= 1

\* the indices {f + i*k : i in [-n, 0]} inside the video, ascending
ExpectedIndices(f, n, k, total) ==
  SortedIds({f + (i * k) : i \in (0 - n)..0} \cap 0..(total - 1))

\* h is f / fps * 1000 to two decimals, in hundredths of a millisecond
IsTimestampOf(h, f, fps) ==
  /\ 2 * ((h * fps) - (f * 100000)) <= fps
  /\ 2 * ((f * 100000) - (h * fps)) <= fps

\* C6: a Full-mode capture at frame f with class name c, look-back n and
\* interval k records in its transaction one image path per index of
\* {f + i*k : i in [-n, 0]} inside [0, total_frames), ascending, all under the
\* folder class_c, and appends exactly one ledger row with frame_id f,
\* timestamp_ms f / fps * 1000 and class_label class_c.
C6_FullCaptureRecord ==
  [][\A key \in PressedKeys :
       (Tag(key, TRUE) /\ cfg.mode = "full") =>
         LET f == Prepared.current_frame_idx
             class_c == <<"class">> \o KeyMap(cfg.class_names)[key]
             top == Last(data'.history_stack)
             row == Last(fs'.csv)
         IN /\ [i \in 1..Len(top.files) |-> top.files[i].frame]
                 = ExpectedIndices(f, cfg.extract_num, cfg.interval, TotalFrames)
            /\ \A i \in 1..Len(top.files) :
                 top.files[i].dir = class_c /\ top.files[i].root = "out"
            /\ Front(fs'.csv) = fs.csv
            /\ row.kind = "row"
            /\ row.frame_id = f
            /\ IsTimestampOf(row.timestamp_ms, f, cfg.fps)
            /\ row.class_label = class_c
            /\ top.csv_row = row /\ top.frame_id = f]_vars

\* a Full-mode capture just recorded several images and the range test
\* dropped at least one planned index
C6_Witness ==
  /\ last = "capture"
  /\ cfg.mode = "full"
  /\ data.history_stack # <<>>
  /\ Len(Last(data.history_stack).files) >= 2
  /\ Len(Last(data.history_stack).files) < cfg.extract_num + 1
  /\ Last(fs.csv).frame_id > 0

\* C7: a rebuild run with the parameters and the marker set of the run before
\* it leaves the image files as that run left them and writes no image file.
C7_RebuildIdempotent ==
  [][(RebuildBatchItem /\ last_rebuild'.repeat)
       => (fs'.images = fs.images /\ last_rebuild'.wrote = {})]_vars

\* a rebuild was just repeated with the same parameters over markers for
\* which the first run had written images
C7_Witness ==
  /\ last_rebuild.repeat
  /\ last_rebuild.wrote = {}
  /\ \E p \in fs.images :
       /\ p.root = "new"
       /\ p.frame \in Range(RebuildTargets(
            CHOOSE m \in DOMAIN last_rebuild.markers : TRUE,
            last_rebuild.n, last_rebuild.k, TotalFrames))

\* C8: when the ledger append inside a capture raises, the in-memory marker
\* index is what it was before the capture was attempted.
C8_FailedAppendRollsBackIndex ==
  [][KeyTagAppendFails
       => data'.global_marked_frames = data.global_marked_frames]_vars

\* C9: when the ledger append of a capture raises, no transaction is pushed:
\* the undo stack and the ledger are what they were before the capture.
C9_FailedAppendPushesNothing ==
  [][KeyTagAppendFails
       => (data'.history_stack = data.history_stack /\ fs'.csv = fs.csv)]_vars

\* a capture's append just raised in a session that has transactions to undo
C9_Witness ==
  /\ last = "capture_failed"
  /\ ret = "raised"
  /\ data.history_stack # <<>>

\* C10: when the ledger rewrite of an undo fails, undo returns false and the
\* in-memory marker index is what it was before the call, the ledger file
\* being untouched as well.
C10_FailedRewriteKeepsIndex ==
  [][KeyBackspaceRewriteFails
       => ( /\ ret' = "False"
            /\ data'.global_marked_frames = data.global_marked_frames
            /\ fs'.csv = fs.csv )]_vars

\* an undo's ledger rewrite just failed and the marked frame is still in the
\* index and in the ledger
C10_Witness ==
  /\ last = "undo_failed"
  /\ ret = "False"
  /\ DOMAIN data.global_marked_frames # {}
  /\ DOMAIN data.global_marked_frames = LedgerFrameIds(fs.csv)

\* C11: when a Full-mode capture appends its ledger row while some of its
\* image writes fail, the transaction it pushes lists exactly the image files
\* that were written, and an undo right after it leaves the image files and
\* the ledger rows as they were before the capture.
C11_PartialCaptureRecorded ==
  [][\A key \in PressedKeys, failing \in SUBSET (1..(MaxLookback + 1)) :
       ( /\ cfg.mode = "full"
         /\ failing # {}
         /\ pc = "loop" /\ FrameReady
         /\ failing \subseteq 1..Len(handle_tagging(cfg, Prepared, key).images)
         /\ TagWith(key, TRUE, failing) ) =>
         LET t == handle_tagging(cfg, Prepared, key)
             written == {ImagePath("out", t.label_long, t.label_short,
                                   t.images[i].suffix) :
                           i \in (1..Len(t.images)) \ failing}
             top == Last(data'.history_stack)
             r == undo_last(data', fs', TRUE)
         IN /\ Range(top.files) = written
            /\ r.ret = "True"
            /\ r.fs.images = fs.images
            /\ r.fs.csv = fs.csv]_vars

\* C12: a Full-mode capture at the marked frame f, 0 <= f < total_frames,
\* leaves the video's current frame index at f, the value it had when the
\* capture began, for every look-back count and interval.
C12_CaptureRestoresPosition ==
  (pc = "loop" /\ FrameReady /\ cfg.mode = "full") =>
    \A key \in PressedKeys :
      LET f == Prepared.current_frame_idx
          t == handle_tagging(cfg, Prepared, key)
      IN /\ 0 <= f /\ f < TotalFrames
         /\ t.frame_id = f
         /\ t.video.current_frame_idx = f

\* a Full-mode capture just sought back to an earlier frame, and the video is
\* on the marked frame again
C12_Witness ==
  /\ last = "capture"
  /\ cfg.mode = "full"
  /\ data.history_stack # <<>>
  /\ Len(Last(data.history_stack).files) >= 2
  /\ video.current_frame_idx = Last(data.history_stack).frame_id

\* C13: a MarkOnly capture appends exactly one ledger row, writes no image
\* file and records an empty file list in its transaction, and an undo right
\* after it removes that row only and deletes no file.
C13_MarkOnlyCapture ==
  (pc = "loop" /\ FrameReady /\ cfg.mode = "mark_only") =>
    \A key \in PressedKeys :
      LET t == handle_tagging(cfg, Prepared, key)
          r1 == save_record(data, fs, t.frame_id, t.ms, t.label_long,
                            t.label_short, cfg.mode, t.images, TRUE,
                            1..Len(t.images))
          top == Last(r1.data.history_stack)
          r2 == undo_last(r1.data, r1.fs, TRUE)
      IN /\ Len(r1.fs.csv) = Len(fs.csv) + 1
         /\ Front(r1.fs.csv) = fs.csv
         /\ Last(r1.fs.csv).kind = "row"
         /\ Last(r1.fs.csv).frame_id = t.frame_id
         /\ r1.fs.images = fs.images
         /\ top.files = <<>>
         /\ r2.ret = "True"
         /\ r2.fs.csv = fs.csv
         /\ r2.fs.images = fs.images

\* a MarkOnly capture was just recorded, with an empty file list, in a project
\* that holds image files of an earlier Full-mode session
C13_Witness ==
  /\ last = "capture"
  /\ cfg.mode = "mark_only"
  /\ fs.images # {}
  /\ data.history_stack # <<>>
  /\ Last(data.history_stack).files = <<>>
  /\ Last(fs.csv).note = "mark_only"
  /\ Last(data.history_stack).csv_row = Last(fs.csv)

\* C14: through any sequence of reads, seeks to any integer and 'd'/'f' steps
\* the video's current index stays in [0, total_frames - 1]; seek(i) leaves
\* it at i clamped to that range; a read at the end of the stream returns
\* false and leaves it unchanged.
C14_IndexStaysInVideo ==
  /\ [](0 <= video.current_frame_idx
         /\ video.current_frame_idx <= plan_in.total - 1)
  /\ [][ /\ VideoSeek =>
              video'.current_frame_idx =
                IF plan_in'.center < 0 THEN 0
                ELSE IF plan_in'.center > plan_in.total - 1
                     THEN plan_in.total - 1 ELSE plan_in'.center
         /\ (VideoRead /\ video.pos >= plan_in.total) =>
              ( /\ ret' = "False"
                /\ video'.current_frame_idx = video.current_frame_idx ) ]_vars

\* a read just failed at the end of the stream, after a seek beyond the last
\* frame had been clamped to it
C14_Witness ==
  /\ last = "read"
  /\ ret = "False"
  /\ plan_in.center >= plan_in.total
  /\ plan_in.total >= 2
  /\ video.current_frame_idx = plan_in.total - 1

\* C15: a capture changes the ledger only by adding one row after all the
\* rows it holds; a successful undo changes it only by removing its last
\* row, which is the row of the most recent capture of this session not yet
\* undone; the header and the rows the ledger held when the session opened
\* (all but the last history_stack-many) are never removed or altered.
C15_LedgerAppendOnlyLifo ==
  [][ /\ (last' = "capture" /\ \E key \in PressedKeys : Tag(key, TRUE)) =>
           ( /\ Len(fs'.csv) = Len(fs.csv) + 1
             /\ Front(fs'.csv) = fs.csv
             /\ Last(fs'.csv).kind = "row" )
      /\ (ret' = "True" /\ KeyBackspace) =>
           ( /\ Len(fs.csv) > 1
             /\ fs'.csv = Front(fs.csv)
             /\ Last(fs.csv) = Last(data.history_stack).csv_row )
      /\ (ret' = "False" /\ KeyBackspace) => fs'.csv = fs.csv
      /\ LET opened == Len(fs.csv) - Len(data.history_stack)
         IN /\ opened >= 1
            /\ fs.csv[1] = HeaderLine
            /\ Len(fs'.csv) >= opened
            /\ \/ fs'.csv = fs.csv
               \/ SubSeq(fs'.csv, 1, opened) = SubSeq(fs.csv, 1, opened)
            /\ \/ NewSession
               \/ Len(fs'.csv) - Len(data'.history_stack) = opened ]_vars

\* an undo just removed the row of this session's only capture from a ledger
\* that held a row when the session opened
C15_Witness ==
  /\ last = "undo"
  /\ ret = "True"
  /\ data.history_stack = <<>>
  /\ Len(fs.csv) = 2
  /\ fs.csv[2].kind = "row"

\* C16: on every way out of a labeling session (end of stream, ESC while
\* playing, ESC at the intro screen, an error raised by a capture or an undo
\* inside the loop) the video's handle has been released once the session
\* is over.
C16_ReleasedOnEveryExit ==
  pc \in {"done", "crashed"} => ~video.opened

\* the value the configuration file stores for a parameter
StoredValue(file, key) ==
  file[CHOOSE i \in 1..Len(file) : file[i].key = key].val.v

\* C17: once the project configuration file exists, every later construction
\* of the ProjectManager, whatever class_names, extract_num and interval its
\* caller passes, takes the file's values as its configuration and leaves
\* the file as it is.
C17_StoredConfigWins ==
  [][(ProjectConstruct /\ project.config_file # <<>>) =>
       ( /\ project'.config_file = project.config_file
         /\ DOMAIN project'.config = {"class_names", "extract_num", "interval"}
         /\ \A key \in DOMAIN project'.config :
              project'.config[key] = StoredValue(project.config_file, key) )]_vars

\* a construction just passed values that all differ from the stored ones and
\* runs with the stored ones
C17_Witness ==
  /\ project.config_file # <<>>
  /\ DOMAIN project.config = {"class_names", "extract_num", "interval"}
  /\ \A key \in DOMAIN project.config :
       /\ project.supplied[key] # project.config[key]
       /\ project.config[key] = StoredValue(project.config_file, key)

\* the marker index a ledger file stands for: for every frame id that has a
\* well-formed row, the short code of the last such row
ExpectedMarkers(lines) ==
  LET wf == {i \in 2..Len(lines) : lines[i].kind = "row"}
      ids == {lines[i].frame_id : i \in wf}
  IN [f \in ids |->
        LET i == CHOOSE j \in wf :
                   /\ lines[j].frame_id = f
                   /\ \A k \in wf : lines[k].frame_id = f => k <= j
        IN ShortOf(lines[i].class_label)]

\* C18: opening a ledger that holds malformed rows (fewer than four fields,
\* or a frame_id that is not an integer) succeeds: every malformed row is
\* skipped and every well-formed row before or after it is replayed into the
\* marker index, the last well-formed row of a frame id winning.
C18_MalformedRowsSkipped ==
  last = "open" =>
    /\ data.global_marked_frames = ExpectedMarkers(fs.csv)
    /\ data.history_stack = <<>>

\* a session just opened a ledger whose first data row is malformed and whose
\* second is well-formed, and the second is in the index
C18_Witness ==
  /\ last = "open"
  /\ pc = "intro"
  /\ Len(fs.csv) = 3
  /\ fs.csv[2].kind \in {"short", "badid"}
  /\ fs.csv[3].kind = "row"
  /\ fs.csv[3].frame_id = 1
  /\ DOMAIN data.global_marked_frames = {1}

\* C19: a rebuild run changes neither the undo stack, nor the in-memory
\* marker index, nor the source ledger file, whatever its parameters.
C19_RebuildLeavesSessionData ==
  [][RebuildBatchItem =>
       ( /\ data'.history_stack = data.history_stack
         /\ data'.global_marked_frames = data.global_marked_frames
         /\ fs'.csv = fs.csv )]_vars

\* a rebuild just wrote images and copied the ledger for a project with
\* markers
C19_Witness ==
  /\ last = "rebuild"
  /\ last_rebuild.wrote # {}
  /\ Len(fs.csv) > 1
  /\ fs.new_csv = fs.csv
  /\ DOMAIN data.global_marked_frames # {}
  /\ data.global_marked_frames = last_rebuild.markers

\* C20: for a marker at frame f, 0 <= f < total_frames, the rebuild loop plans
\* exactly the indices {f + i*new_interval : i in [-new_extract_num, 0]}
\* inside [0, total_frames), the list the capture loop plans for a mark at f
\* with the same look-back and interval.
C20_RebuildPlanEqualsLivePlan ==
  ( /\ plan_out.ran = {"live", "rebuild"}
    /\ 0 <= plan_in.center /\ plan_in.center < plan_in.total ) =>
    /\ plan_out.rebuild = ExpectedIndices(plan_in.center, plan_in.lookback,
                                          plan_in.interval, plan_in.total)
    /\ plan_out.rebuild = plan_out.live

\* C21: a MarkOnly capture makes no seek on the video: the stream is not
\* repositioned at any point of the capture.
C21_MarkOnlyCaptureNeverSeeks ==
  (pc = "loop" /\ FrameReady /\ cfg.mode = "mark_only") =>
    \A key \in PressedKeys : handle_tagging(cfg, Prepared, key).seeks = <<>>

\* C22: every image file the capture loop or the rebuild writes holds the
\* frame whose index is the six-digit index in its name: the frame taken for
\* the file named with index k is the frame decoded at position k.
C22_FileHoldsNamedFrame ==
  /\ (pc = "loop" /\ FrameReady) =>
       \A key \in PressedKeys :
         LET t == handle_tagging(cfg, Prepared, key)
         IN \A i \in 1..Len(t.images) : t.images[i].frame = t.images[i].suffix
  /\ pc = "intro" =>
       \A params \in RebuildParams :
         \A x \in rebuild_dataset(cfg, video, data, fs, params[1], params[2],
                                  TRUE, TRUE).taken : x.frame = x.name

\* C23: whenever undo returns false, because the undo stack is empty or
\* because the ledger rewrite failed, the undo stack, the image files, the
\* ledger rows and the marker index are what they were before the call.
C23_FailedUndoChangesNothing ==
  [][(ret' = "False" /\ (KeyBackspace \/ KeyBackspaceRewriteFails)) =>
       ( /\ data'.history_stack = data.history_stack
         /\ fs'.images = fs.images
         /\ fs'.csv = fs.csv
         /\ data'.global_marked_frames = data.global_marked_frames )]_vars

====
